---------------------------- MODULE Spec2Model ----------------------------
(***************************************************************************)
(* Model of montecarlo.py: ChessEloPredictor.simulate_rating_changes and   *)
(* ChessEloPredictor.analyze_magnus_scenarios.                             *)
(*                                                                         *)
(* Number representation.  Python floats are modelled in fixed point:      *)
(*   - ratings and rating changes are integers in hundredths of a rating   *)
(*     point (2805.00 is 280500);                                          *)
(*   - probabilities, uniform random draws, match results and expected     *)
(*     scores are integers in thousandths (0.5 is 500);                    *)
(*   - every division rounds down.                                         *)
(* Dates are months (year * 12 + month - 1): a start date stands for the   *)
(* first day of its month, an end date for the last day of its month.      *)
(* Players are 1..n in the insertion order of the current_ratings dict.    *)
(***************************************************************************)
EXTENDS Integers, Sequences, FiniteSets

\* ------------------------------------------------------------------ bounds

\* Largest population (rows of the CSV with a valid rating).
MaxPlayers == 22

\* Largest n_simulations given to the constructor.
MaxSimulations == 2

\* Largest matches_per_month given to the constructor.
MaxMatches == 2

\* Longest month grid requested (end_date is at most MaxMonths months after
\* start_date).
MaxMonths == 3

\* Seeds of the global random generator are 0..MaxSeed.
MaxSeed == 2

\* ------------------------------------------------------- program constants

\* sorted(...)[:20]
TopPlayers == 20

\* k_factor = 10
k_factor == 10

\* the "+ 100" of the opponent weights, in rating points
WeightOffset == 100

\* draw_probability's defaults, in thousandths: base_draw = 0.20, 0.5, and
\* steepness = 0.006
base_draw == 200
HalfScore == 500
steepness == 6

\* the threshold of below_2800_before_2026, in rating points
Threshold2800 == 2800

\* the year and month the scenarios name
Year2025 == 2025
July == 7

\* ------------------------------------------------------ fixed-point helpers

\* One rating point, and probability 1.
Centi == 100
Milli == 1000
Micro == 1000000

Abs(x) == IF x < 0 THEN -x ELSE x

Min(a, b) == IF a < b THEN a ELSE b

\* exp(-1) in millionths.
ExpMinusOne == 367879

\* Terms of the Taylor series of exp summed by ExpNeg.
ExpTerms == 8

\* The j-th Taylor term f^j / j! in millionths, f in thousandths, 0 <= f < 1.
RECURSIVE TaylorTerm(_, _)
TaylorTerm(f, j) ==
    IF j = 0 THEN Micro ELSE (TaylorTerm(f, j - 1) * f) \div (Milli * j)

RECURSIVE TaylorSum(_, _)
TaylorSum(f, j) ==
    IF j < 0 THEN 0
    ELSE TaylorSum(f, j - 1)
         + (IF j % 2 = 0 THEN TaylorTerm(f, j) ELSE -TaylorTerm(f, j))

RECURSIVE TimesExpMinus(_, _)
TimesExpMinus(r, k) ==
    IF k = 0 \/ r = 0 THEN r ELSE TimesExpMinus((r * ExpMinusOne) \div Micro, k - 1)

\* np.exp(-y): y >= 0 in thousandths, the result in thousandths.
ExpNeg(y) == TimesExpMinus(TaylorSum(y % Milli, ExpTerms) \div Milli, y \div Milli)

\* |diff| beyond which exp(-steepness * diff^2) is 0 to the third decimal, in
\* rating points (keeps diff^2 inside the integer range).
DrawCutoff == 40

\* draw_probability(rating_diff): rating_diff >= 0 in hundredths of a point.
draw_probability(rating_diff) ==
    IF rating_diff >= DrawCutoff * Centi THEN base_draw
    ELSE base_draw
         + ((HalfScore - base_draw)
              * ExpNeg((steepness * rating_diff * rating_diff) \div (Centi * Centi)))
           \div Milli

\* 10 ** (d / 400) = exp(d * ln(10) / 400): ln(10) / 400 = 0.00576 per rating
\* point, in hundred-thousandths.
Ln10Over400 == 576

\* 10 ** (-|d| / 400) in thousandths, d in hundredths of a point.
PowTenNeg(d) == ExpNeg((Abs(d) * Ln10Over400) \div (Centi * Centi))

\* The reciprocal is dropped: 1 + 10 ** ((rating_b - rating_a) / 400).
calculate_win_probability_no_reciprocal(rating_a, rating_b) ==
    IF rating_b >= rating_a
    THEN Milli + Micro \div (PowTenNeg(rating_b - rating_a) + 1)
    ELSE Milli + PowTenNeg(rating_b - rating_a)

\* calculate_win_probability: 1 / (1 + 10 ** ((rating_b - rating_a) / 400)).
calculate_win_probability(rating_a, rating_b) ==
    IF rating_b >= rating_a
    THEN (Milli * PowTenNeg(rating_b - rating_a))
           \div (PowTenNeg(rating_b - rating_a) + Milli)
    ELSE Micro \div (Milli + PowTenNeg(rating_b - rating_a))

\* simulate_match with the value np.random.random() returned: 0.5, 1.0 or 0.0.
simulate_match(rating_a, rating_b, result) ==
    LET win_prob == calculate_win_probability(rating_a, rating_b)
        draw_prob == draw_probability(Abs(rating_a - rating_b))
    IN  IF result < draw_prob THEN HalfScore
        ELSE IF result < (win_prob * (Milli - draw_prob)) \div Milli + draw_prob
             THEN Milli
             ELSE 0

\* ------------------------------------------------- the global random state

\* np.random's generator is one global state advanced by every draw; it is
\* modelled as a full-period linear congruential generator.
RngModulus == 1024
RngMultiplier == 205
RngIncrement == 29

NextRandom(x) == (RngMultiplier * x + RngIncrement) % RngModulus

\* The uniform value in [0, 1) a generator state yields, in thousandths.
Uniform(x) == (x * Milli) \div RngModulus

\* The generator state after k draws.
RECURSIVE Advance(_, _)
Advance(x, k) == IF k = 0 THEN x ELSE Advance(NextRandom(x), k - 1)

\* The k-th draw (k >= 1) from generator state x.
Draw(x, k) == Uniform(Advance(x, k))

\* ------------------------------------------------------------------- dates

Date(year, month) == year * 12 + month - 1

YearOf(date) == date \div 12

MonthOf(date) == (date % 12) + 1

\* pd.date_range(start_date, end_date, freq="M"): the month ends from
\* start_date to end_date, none when end_date is before start_date.
date_range(start_date, end_date) ==
    IF end_date < start_date THEN << >>
    ELSE [i \in 1..(end_date - start_date + 1) |-> start_date + i - 1]

\* The start dates the model calls with.
StartDates == {Date(Year2025, July), Date(Year2025, 12)}

\* ------------------------------------------------------------------- state

VARIABLES
    current_ratings,      \* self.current_ratings: player -> latest rating
    n_simulations,        \* self.n_simulations
    matches_per_month,    \* self.matches_per_month
    seed,                 \* the state np.random was seeded with
    rng,                  \* the state of np.random's global generator
    pc,                   \* where the call is: "idle", "run", "players",
                          \* "returned", "analyze", "done", "raised"
    dates,                \* <<start_date, end_date>> of the call
    months,               \* the month grid of the call
    simulated_ratings,    \* player -> run -> column -> rating
    sim,                  \* the run being simulated
    month_idx,            \* the month being simulated
    current_sim_ratings,  \* the snapshot taken at the start of the month
    top_players,          \* the active pool, best first
    player_pos,           \* the position in top_players of the next player_a
    opponents_of,         \* player -> the opponents sampled for it this month
    match_ratings,        \* <<player_a, rating_a, opponent, rating_b>> of every
                          \* match played this month
    invocation,           \* 1 for the first call, 2 for the repeated call
    first_result,         \* the ensemble the first call returned
    july_2025_idx,        \* analyze_magnus_scenarios' locals
    months_2025,
    months_until_2026,
    results,              \* scenario -> count of runs
    scenario_sim,         \* the run analyze_magnus_scenarios is looking at
    read_top,             \* the columns top_2025_all_months read for that run
    read_below            \* the columns below_2800_before_2026 read for that run

config_vars == <<current_ratings, n_simulations, matches_per_month, seed>>

month_vars == <<current_sim_ratings, top_players, player_pos, opponents_of,
                match_ratings>>

pair_vars == <<invocation, first_result>>

scenario_vars == <<july_2025_idx, months_2025, months_until_2026, results,
                   scenario_sim, read_top, read_below>>

vars == <<config_vars, rng, pc, dates, months, simulated_ratings, sim, month_idx,
          month_vars, pair_vars, scenario_vars>>

\* The row "Carlsen, Magnus" of the rating table.
Magnus == 2

\* Population sizes 0..SmallPopulation are modelled, and MaxPlayers - 1 and
\* MaxPlayers.
SmallPopulation == 3

PopulationSizes == (0..SmallPopulation) \cup {MaxPlayers - 1, MaxPlayers}

\* get_latest_ratings: the latest valid rating of each row of the table.  The
\* table is input data: Magnus leads at 2805, the others follow in tied pairs
\* four points apart, in an order that is not the rating order.
LatestRating(player) ==
    IF player = Magnus THEN 2805 * Centi
    ELSE (2796 - 4 * (player \div 2)) * Centi

get_latest_ratings(n) == [player \in 1..n |-> LatestRating(player)]

Players == DOMAIN current_ratings

NoScenario == [july_2025_highest |-> 0, top_2025_all_months |-> 0,
               below_2800_before_2026 |-> 0]

\* The state after ChessEloPredictor(csv_path, n_simulations, matches_per_month).
Init ==
    /\ \E n \in PopulationSizes : current_ratings = get_latest_ratings(n)
    /\ n_simulations \in 1..MaxSimulations
    /\ matches_per_month \in 1..MaxMatches
    /\ seed \in 0..MaxSeed
    /\ rng = seed
    /\ pc = "idle"
    /\ dates = << >>
    /\ months = << >>
    /\ simulated_ratings = << >>
    /\ sim = 0
    /\ month_idx = 0
    /\ current_sim_ratings = << >>
    /\ top_players = << >>
    /\ player_pos = 1
    /\ opponents_of = << >>
    /\ match_ratings = {}
    /\ invocation = 1
    /\ first_result = << >>
    /\ july_2025_idx = 0
    /\ months_2025 = << >>
    /\ months_until_2026 = << >>
    /\ results = NoScenario
    /\ scenario_sim = 0
    /\ read_top = {}
    /\ read_below = {}

\* ------------------------------------------------- simulate_rating_changes

\* The range of a sequence.
Range(seq) == {seq[i] : i \in DOMAIN seq}

\* The sum of the first k entries of a sequence of numbers.
RECURSIVE SumTo(_, _)
SumTo(seq, k) == IF k = 0 THEN 0 ELSE SumTo(seq, k - 1) + seq[k]

\* The initial rating is taken from the final column of the ensemble a previous
\* call left behind.
InitialRatingCarriedOver(player) ==
    IF pc = "idle" THEN current_ratings[player]
    ELSE simulated_ratings[player][0][Len(months)]

\* simulated_ratings[player][:, 0] = self.current_ratings[player]
InitialRating(player) == current_ratings[player]

\* The column is the month's own.
SameColumn(m) == m

\* The column month m writes: month_idx + 1.
NextColumn(m) == m + 1

\* np.zeros((n_simulations, len(months) + 1)) with column 0 set.
InitialEnsemble(grid) ==
    [player \in Players |->
        [run \in 0..(n_simulations - 1) |->
            [column \in 0..Len(grid) |->
                IF column = 0 THEN InitialRating(player) ELSE 0]]]

\* sorted(ratings.items(), key=rating, reverse=True)[:k] over the players in
\* `rest`: the sort is stable, so players of equal rating keep the dict's order.
RECURSIVE SortedTop(_, _, _)
SortedTop(ratings, rest, k) ==
    IF k = 0 \/ rest = {} THEN << >>
    ELSE LET best == CHOOSE p \in rest :
                       \A q \in rest :
                          \/ ratings[p] > ratings[q]
                          \/ ratings[p] = ratings[q] /\ p <= q
         IN  <<best>> \o SortedTop(ratings, rest \ {best}, k - 1)

\* The self-exclusion is missing: every member of the pool is a candidate.
CandidatesWithSelf(player_a) == top_players

\* [p[0] for p in top_players if p[0] != player_a]
Candidates(player_a) ==
    LET NotSelf(p) == p # player_a IN SelectSeq(top_players, NotSelf)

\* The opponent's rating as last written: its new rating once it has played.
LatestRatingOf(opponent) ==
    IF opponents_of[opponent] # << >>
    THEN simulated_ratings[opponent][sim][month_idx + 1]
    ELSE current_sim_ratings[opponent]

\* current_sim_ratings[opponent]
OpponentRating(opponent) == current_sim_ratings[opponent]

\* The scale of the weights: 1 / (diff + 100) is kept in hundred-millionths
\* per hundredth of a point.
WeightScale == 100000000

\* weights = 1 / (np.array(rating_diffs) + 100), before normalisation.
Weights(player_a) ==
    LET candidates == Candidates(player_a)
    IN  [i \in DOMAIN candidates |->
            WeightScale
              \div (Abs(current_sim_ratings[player_a]
                          - current_sim_ratings[candidates[i]])
                      + WeightOffset * Centi)]

\* The first index i from `from` on with target < Milli * (weights[1] + ... +
\* weights[i]), `below` being weights[1] + ... + weights[from - 1]; the last
\* index when there is none.
RECURSIVE SearchSorted(_, _, _, _)
SearchSorted(weights, target, from, below) ==
    IF from >= Len(weights) \/ target < Milli * (below + weights[from])
    THEN from
    ELSE SearchSorted(weights, target, from + 1, below + weights[from])

\* np.random.choice(candidates, size=matches_per_month, p=weights /
\* weights.sum(), replace=True): the first matches_per_month draws of the
\* generator pick the opponents, each the first candidate whose cumulative
\* probability exceeds the uniform draw.
SampleOpponents(player_a) ==
    LET candidates == Candidates(player_a)
        weights == Weights(player_a)
        total == SumTo(weights, Len(weights))
    IN  [j \in 1..matches_per_month |->
            candidates[SearchSorted(weights, Draw(rng, j) * total, 1, 0)]]

\* rating_change = k_factor * (result - expected_score), result and
\* expected_score in thousandths, the change in hundredths of a point.
rating_change(result, expected_score) ==
    (k_factor * (result - expected_score) * Centi) \div Milli

\* monthly_rating_change after the first j matches; match j takes draw
\* matches_per_month + j of the generator.
RECURSIVE monthly_rating_change(_, _, _)
monthly_rating_change(rating_a, opponents, j) ==
    IF j = 0 THEN 0
    ELSE monthly_rating_change(rating_a, opponents, j - 1)
         + rating_change(
              simulate_match(rating_a, OpponentRating(opponents[j]),
                             Draw(rng, matches_per_month + j)),
              calculate_win_probability(rating_a, OpponentRating(opponents[j])))

\* Lines 60-68: the month grid, the zeroed ensemble and its column 0.
simulate_rating_changes(start_date, end_date) ==
    /\ dates' = <<start_date, end_date>>
    /\ months' = date_range(start_date, end_date)
    /\ simulated_ratings' = InitialEnsemble(date_range(start_date, end_date))
    /\ sim' = 0
    /\ month_idx' = 0
    /\ pc' = "run"

Call ==
    /\ pc = "idle"
    /\ \E start_date \in StartDates, length \in 0..MaxMonths :
          simulate_rating_changes(start_date, start_date + length - 1)
    /\ UNCHANGED <<config_vars, rng, month_vars, pair_vars, scenario_vars>>

\* Lines 73-85: the snapshot of the month and its active pool.
BeginMonth ==
    /\ pc = "run"
    /\ sim < n_simulations
    /\ month_idx < Len(months)
    /\ current_sim_ratings' =
          [player \in Players |-> simulated_ratings[player][sim][month_idx]]
    /\ top_players' = SortedTop(current_sim_ratings', Players, TopPlayers)
    /\ player_pos' = 1
    /\ opponents_of' = [player \in Players |-> << >>]
    /\ match_ratings' = {}
    /\ pc' = "players"
    /\ UNCHANGED <<config_vars, rng, dates, months, simulated_ratings, sim, month_idx,
                   pair_vars, scenario_vars>>

\* Lines 88-123 for one player_a: the opponents, the matches, the new rating.
\* np.random.choice raises ValueError when there is no candidate.
PlayMatches ==
    /\ pc = "players"
    /\ player_pos <= Len(top_players)
    /\ LET player_a == top_players[player_pos]
           rating_a == current_sim_ratings[player_a]
       IN  IF Candidates(player_a) = << >>
           THEN /\ pc' = "raised"
                /\ UNCHANGED <<rng, simulated_ratings, month_vars>>
           ELSE LET opponents == SampleOpponents(player_a)
                IN  /\ simulated_ratings' =
                          [simulated_ratings EXCEPT
                             ![player_a][sim][NextColumn(month_idx)] =
                                 current_sim_ratings[player_a]
                                 + monthly_rating_change(rating_a, opponents,
                                                         matches_per_month)]
                    /\ opponents_of' =
                          [opponents_of EXCEPT ![player_a] = opponents]
                    /\ match_ratings' =
                          match_ratings
                            \cup {<<player_a, rating_a, opponents[j],
                                     OpponentRating(opponents[j])>> :
                                       j \in 1..matches_per_month}
                    /\ rng' = Advance(rng, 2 * matches_per_month)
                    /\ player_pos' = player_pos + 1
                    /\ UNCHANGED <<pc, current_sim_ratings, top_players>>
    /\ UNCHANGED <<config_vars, dates, months, sim, month_idx, pair_vars, scenario_vars>>

\* The end of "for player_a, rating_a in top_players": the next month.
EndMonth ==
    /\ pc = "players"
    /\ player_pos > Len(top_players)
    /\ month_idx' = month_idx + 1
    /\ pc' = "run"
    /\ UNCHANGED <<config_vars, rng, dates, months, simulated_ratings, sim, month_vars,
                   pair_vars, scenario_vars>>

\* The end of "for month_idx in range(len(months))": the next run.
NextSim ==
    /\ pc = "run"
    /\ sim < n_simulations
    /\ month_idx = Len(months)
    /\ sim' = sim + 1
    /\ month_idx' = 0
    /\ UNCHANGED <<config_vars, rng, pc, dates, months, simulated_ratings, month_vars,
                   pair_vars, scenario_vars>>

\* Line 125: return simulated_ratings, months.
Return ==
    /\ pc = "run"
    /\ sim = n_simulations
    /\ pc' = "returned"
    /\ UNCHANGED <<config_vars, rng, dates, months, simulated_ratings, sim, month_idx,
                   month_vars, pair_vars, scenario_vars>>

\* ------------------------------------------------ analyze_magnus_scenarios

\* The grid positions, counted from 0 as enumerate(months) counts them, of the
\* months that are in `wanted`, in order.
GridIndices(wanted) ==
    LET Wanted(i) == months[i] \in wanted
        kept == SelectSeq([i \in DOMAIN months |-> i], Wanted)
    IN  [k \in DOMAIN kept |-> kept[k] - 1]

\* m.year == 2025
In2025 == {month \in Range(months) : YearOf(month) = Year2025}

\* m.year <= 2025
Until2026 == {month \in Range(months) : YearOf(month) <= Year2025}

\* months.strftime("%Y-%m") == "2025-07"
IsJuly2025 ==
    {month \in Range(months) : YearOf(month) = Year2025 /\ MonthOf(month) = July}

\* max(ratings.values()) of the column of one run.
MaxRating(run, column) ==
    LET best == CHOOSE p \in Players :
                   \A q \in Players :
                      simulated_ratings[p][run][column]
                        >= simulated_ratings[q][run][column]
    IN  simulated_ratings[best][run][column]

\* Whether Magnus is the highest rated in the column of one run.
MagnusHighest(run, column) ==
    simulated_ratings[Magnus][run][column] = MaxRating(run, column)

\* The column top_2025_all_months reads for grid position i: month_idx + 1.
TopColumn(i) == i + 1

\* The column below_2800_before_2026 reads for grid position i:
\* magnus_path[months_until_2026].
BelowColumn(i) == i

\* Lines 131-144.  self.df.loc["Carlsen, Magnus"] raises KeyError without that
\* row, and np.where(...)[0][0] raises IndexError without July 2025 in the grid.
AnalyzeSetup ==
    /\ pc = "returned"
    /\ IF Magnus \notin Players \/ GridIndices(IsJuly2025) = << >>
       THEN /\ pc' = "raised"
            /\ UNCHANGED <<july_2025_idx, months_2025, months_until_2026>>
       ELSE /\ july_2025_idx' = GridIndices(IsJuly2025)[1] + 1
            /\ months_2025' = GridIndices(In2025)
            /\ months_until_2026' = GridIndices(Until2026)
            /\ pc' = "analyze"
    /\ scenario_sim' = 0
    /\ UNCHANGED <<config_vars, rng, dates, months, simulated_ratings, sim,
                   month_idx, month_vars, pair_vars, results, read_top,
                   read_below>>

\* The months of months_2025 the loop of lines 158-164 looks at before it
\* breaks: up to and including the first one Magnus does not top.
TopMonthsRead(run) ==
    LET Failed(k) == ~MagnusHighest(run, TopColumn(months_2025[k]))
    IN  {k \in DOMAIN months_2025 : \A j \in 1..(k - 1) : ~Failed(j)}

\* Lines 146-171 for one run.
AnalyzeSim ==
    /\ pc = "analyze"
    /\ scenario_sim < n_simulations
    /\ LET run == scenario_sim
           july_highest == MagnusHighest(run, july_2025_idx)
           top_all_months ==
               \A k \in DOMAIN months_2025 :
                  MagnusHighest(run, TopColumn(months_2025[k]))
           below_2800 ==
               \E k \in DOMAIN months_until_2026 :
                  simulated_ratings[Magnus][run][BelowColumn(months_until_2026[k])]
                    < Threshold2800 * Centi
           Count(b) == IF b THEN 1 ELSE 0
       IN  /\ results' =
                 [july_2025_highest |->
                     results.july_2025_highest + Count(july_highest),
                  top_2025_all_months |->
                     results.top_2025_all_months + Count(top_all_months),
                  below_2800_before_2026 |->
                     results.below_2800_before_2026 + Count(below_2800)]
           /\ read_top' = {TopColumn(months_2025[k]) : k \in TopMonthsRead(run)}
           /\ read_below' =
                 {BelowColumn(months_until_2026[k]) : k \in DOMAIN months_until_2026}
    /\ scenario_sim' = scenario_sim + 1
    /\ UNCHANGED <<config_vars, rng, pc, dates, months, simulated_ratings, sim,
                   month_idx, month_vars, pair_vars, july_2025_idx, months_2025,
                   months_until_2026>>

\* Lines 177-181: the counts are returned, as fractions of n_simulations.
AnalyzeReturn ==
    /\ pc = "analyze"
    /\ scenario_sim = n_simulations
    /\ pc' = "done"
    /\ UNCHANGED <<config_vars, rng, dates, months, simulated_ratings, sim,
                   month_idx, month_vars, pair_vars, scenario_vars>>

Next ==
    \/ Call
    \/ BeginMonth
    \/ PlayMatches
    \/ EndMonth
    \/ NextSim
    \/ Return
    \/ AnalyzeSetup
    \/ AnalyzeSim
    \/ AnalyzeReturn

Spec == Init /\ [][Next]_vars

\* ------------------------------------------------------- the repeated call

\* A second call of simulate_rating_changes with the same dates, on the same
\* predictor, after np.random was seeded again with the same seed.
Reinvoke ==
    /\ pc = "returned"
    /\ invocation = 1
    /\ invocation' = 2
    /\ first_result' = simulated_ratings
    /\ rng' = seed
    /\ simulate_rating_changes(dates[1], dates[2])
    /\ UNCHANGED <<config_vars, month_vars, scenario_vars>>

NextPair ==
    \/ Call
    \/ BeginMonth
    \/ PlayMatches
    \/ EndMonth
    \/ NextSim
    \/ Return
    \/ Reinvoke

SpecPair == Init /\ [][NextPair]_vars

\* ------------------------------------------------------------------ claims

\* The players of the active pool that have played this month's matches.
Played == {top_players[i] : i \in 1..(player_pos - 1)}

\* The position of a member of the active pool.
PositionOf(player) == CHOOSE i \in DOMAIN top_players : top_players[i] = player

\* C1: when a month step of a run is complete, every player outside the top 20
\* of the step-t snapshot has at step t+1 the rating it had at step t.
C1_InactiveCarriedForward ==
    (pc = "run" /\ month_idx > 0) =>
        \A player \in Players \ Range(top_players) :
            simulated_ratings[player][sim][month_idx]
              = simulated_ratings[player][sim][month_idx - 1]

\* C2: once the ensemble exists, every trajectory of every player and run has
\* the columns 0..numMonths, and column 0 holds the player's latest known
\* rating in every state that follows, whatever month step has been taken.
C2_TrajectoryShape ==
    pc # "idle" =>
        \A player \in Players, run \in 0..(n_simulations - 1) :
            /\ DOMAIN simulated_ratings[player][run] = 0..Len(months)
            /\ simulated_ratings[player][run][0] = current_ratings[player]

\* C2 witness: an ensemble of at least two months is returned in which the
\* last run moved a rating away from its initial value.
C2_Witness ==
    /\ pc = "returned"
    /\ Len(months) >= 2
    /\ \E player \in Players :
          /\ simulated_ratings[player][n_simulations - 1][Len(months)] # 0
          /\ simulated_ratings[player][n_simulations - 1][Len(months)]
               # current_ratings[player]

\* C3: while a month is being processed, the step-t column still holds the
\* snapshot taken at the start of the month, and every match played so far
\* used, for the player and for the opponent, their step-t ratings.
C3_ReadAllThenWriteAll ==
    pc = "players" =>
        /\ \A player \in Players :
              simulated_ratings[player][sim][month_idx]
                = current_sim_ratings[player]
        /\ \A match \in match_ratings :
              /\ match[2] = simulated_ratings[match[1]][sim][month_idx]
              /\ match[4] = simulated_ratings[match[3]][sim][month_idx]

\* C3 witness: a player met an opponent that had already been given its new,
\* different, rating for the month.
C3_Witness ==
    /\ pc = "players"
    /\ \E match \in match_ratings :
          /\ PositionOf(match[3]) < PositionOf(match[1])
          /\ simulated_ratings[match[3]][sim][month_idx + 1] # match[4]

\* C4: with fewer than 2 players and a non-empty month grid, no month step is
\* completed and no ensemble is returned.
C4_SmallPoolFails ==
    (Cardinality(Players) < 2 /\ Len(months) > 0) =>
        /\ pc # "returned"
        /\ ~(pc = "run" /\ month_idx > 0)

\* C5: a call whose dates give a month grid of zero months runs no simulation
\* and returns no ensemble.
C5_EmptyGridFails ==
    (dates # << >> /\ Len(months) = 0) => (pc # "returned" /\ sim = 0)

\* C6: every active player that has played its matches of the month has moved
\* by at most kFactor * matchesPerMonth rating points from its step-t rating.
C6_MonthlyChangeBounded ==
    pc = "players" =>
        \A player \in Played :
            Abs(simulated_ratings[player][sim][month_idx + 1]
                  - simulated_ratings[player][sim][month_idx])
              <= k_factor * matches_per_month * Centi

\* C6 witness: a player moved by more than one match can move it.
C6_Witness ==
    /\ pc = "players"
    /\ \E player \in Played :
          Abs(simulated_ratings[player][sim][month_idx + 1]
                - simulated_ratings[player][sim][month_idx])
            > k_factor * Centi

\* C7: while a later run is still to be simulated, a step of the processing of
\* run r changes nothing that the other runs hold or will read: not their
\* trajectories, and not the random generator every run draws from.
C7_RunsShareNoState ==
    [][(pc = "players" /\ sim + 1 < n_simulations) =>
          /\ rng' = rng
          /\ \A player \in Players, run \in 0..(n_simulations - 1) :
                run # sim =>
                   simulated_ratings'[player][run] = simulated_ratings[player][run]
      ]_vars

\* C8: the second call, made with the same ratings, parameters and dates after
\* the generator was put back to the same seed, returns the ensemble and the
\* months the first call returned.
C8_SameStreamSameTrajectories ==
    (invocation = 2 /\ pc = "returned") =>
        /\ simulated_ratings = first_result
        /\ months = date_range(dates[1], dates[2])

\* C8 witness: the second call returned an ensemble of at least two players whose
\* runs differ from each other.
C8_Witness ==
    /\ invocation = 2
    /\ pc = "returned"
    /\ Cardinality(Players) >= 2
    /\ n_simulations >= 2
    /\ \E player \in Players :
          simulated_ratings[player][0][Len(months)]
            # simulated_ratings[player][1][Len(months)]

\* C9: in every month step the active pool is the top 20 of the step-t
\* snapshot; every member that has been processed drew exactly matchesPerMonth
\* opponents, each a member of the pool other than itself; and nobody else has
\* played.
C9_OpponentsFromPool ==
    pc = "players" =>
        /\ Len(top_players) = Min(TopPlayers, Cardinality(Players))
        /\ Cardinality(Range(top_players)) = Len(top_players)
        /\ \A player \in Range(top_players), other \in Players \ Range(top_players) :
              current_sim_ratings[player] >= current_sim_ratings[other]
        /\ \A player \in Played :
              /\ Len(opponents_of[player]) = matches_per_month
              /\ Range(opponents_of[player]) \subseteq Range(top_players) \ {player}
        /\ \A player \in Players \ Played : opponents_of[player] = << >>

\* C9 witness: a month is complete for a population of more than 20 players,
\* and one player met the same opponent twice.
C9_Witness ==
    /\ pc = "players"
    /\ player_pos > Len(top_players)
    /\ Cardinality(Players) > TopPlayers
    /\ \E player \in Played :
          /\ Len(opponents_of[player]) >= 2
          /\ opponents_of[player][1] = opponents_of[player][2]

\* C10: below_2800_before_2026 reads, for a run, exactly the columns i + 1 of
\* the grid months i whose year is at most 2025, and not column 0.
C10_BelowReadsMonthColumns ==
    (pc \in {"analyze", "done"} /\ scenario_sim > 0) =>
        /\ read_below = {i + 1 : i \in Range(GridIndices(Until2026))}
        /\ 0 \notin read_below

=============================================================================
